---- MODULE Spec2Model ----
(***************************************************************************)
(* The todos application: one table of Todo rows (models.py) behind the    *)
(* class-based views of views.py, routed by urls.py.  Text is a sequence   *)
(* of one-character strings, a POST body maps a field name to the list of  *)
(* values submitted under it (empty list: the key is not in the body).     *)
(***************************************************************************)
EXTENDS Integers, Sequences, FiniteSets, TLC

\* objects: the todos table, primary key -> row; nextId: the key sequence;
\* now: the clock; request, response: the last request served and its answer.
\* History kept for the properties: before (the table the last request found),
\* issued (the keys handed out, in order), deleted (the keys whose row was
\* deleted), run (the successive toggles of one todo), steps (steps taken).
\* inflight: the requests being served side by side, each between its lookup
\* and its write; it stays idle while requests are served one after another.
VARIABLES objects, nextId, now, request, response, before, issued, deleted, run, steps,
          inflight

vars == <<objects, nextId, now, request, response, before, issued, deleted, run, steps,
          inflight>>

(***************************************************************************)
(* Bounds of the model.                                                    *)
(***************************************************************************)
\* the number of steps (requests and clock ticks) of a behaviour
MaxSteps == 4

(***************************************************************************)
(* Todo.title: CharField(max_length=200).                                  *)
(***************************************************************************)
TitleMaxLength == 200

Whitespace == {" ", "\t", "\n"}

NoDate == <<>>

SetMin(S) == CHOOSE x \in S : \A y \in S : x <= y

SetMax(S) == CHOOSE x \in S : \A y \in S : x >= y

Rep(c, n) == [i \in 1..n |-> c]

(***************************************************************************)
(* str.strip(): drop leading and trailing whitespace, keep the inside.     *)
(***************************************************************************)
RECURSIVE LStrip(_)
LStrip(s) == IF s # <<>> /\ s[1] \in Whitespace THEN LStrip(Tail(s)) ELSE s

RECURSIVE RStrip(_)
RStrip(s) ==
    IF s # <<>> /\ s[Len(s)] \in Whitespace THEN RStrip(SubSeq(s, 1, Len(s) - 1)) ELSE s

Strip(s) == RStrip(LStrip(s))

(***************************************************************************)
(* Dates.  A stored date is <<year, month, day>>; NoDate is SQL NULL.      *)
(***************************************************************************)
DigitVal ==
    [c \in {"0", "1", "2", "3", "4", "5", "6", "7", "8", "9"} |->
        CASE c = "0" -> 0 [] c = "1" -> 1 [] c = "2" -> 2 [] c = "3" -> 3
          [] c = "4" -> 4 [] c = "5" -> 5 [] c = "6" -> 6 [] c = "7" -> 7
          [] c = "8" -> 8 [] c = "9" -> 9]

IsDigits(p) == \A i \in 1..Len(p) : p[i] \in DOMAIN DigitVal

RECURSIVE Num(_)
Num(p) == IF p = <<>> THEN 0 ELSE 10 * Num(SubSeq(p, 1, Len(p) - 1)) + DigitVal[p[Len(p)]]

IsLeap(y) == (y % 4 = 0 /\ y % 100 # 0) \/ y % 400 = 0

DaysInMonth(y, m) ==
    IF m = 2 THEN (IF IsLeap(y) THEN 29 ELSE 28)
    ELSE IF m \in {4, 6, 9, 11} THEN 30 ELSE 31

\* datetime.date(y, m, d) raises ValueError outside these ranges
ValidDate(y, m, d) == y \in 1..9999 /\ m \in 1..12 /\ d \in 1..DaysInMonth(y, m)

\* the three parts of s around exactly two occurrences of sep, else <<>>
SplitDate(s, sep) ==
    LET cuts == {i \in 1..Len(s) : s[i] = sep}
    IN  IF Cardinality(cuts) # 2 THEN <<>>
        ELSE LET a == SetMin(cuts)
                 b == SetMax(cuts)
             IN  <<SubSeq(s, 1, a - 1), SubSeq(s, a + 1, b - 1), SubSeq(s, b + 1, Len(s))>>

\* strptime directives %Y, %y, %m, %d on one part
IsYear4(p) == Len(p) = 4 /\ IsDigits(p)

IsYear2(p) == Len(p) = 2 /\ IsDigits(p)

Year2(p) == IF Num(p) <= 68 THEN 2000 + Num(p) ELSE 1900 + Num(p)

IsMonth(p) == Len(p) \in 1..2 /\ IsDigits(p) /\ Num(p) \in 1..12

IsDay(p) == Len(p) \in 1..2 /\ IsDigits(p) /\ Num(p) \in 1..31

\* the dates s parses to under the numeric DATE_INPUT_FORMATS, in their order:
\* '%Y-%m-%d', '%m/%d/%Y', '%m/%d/%y'
Strptime(s) ==
    LET iso == SplitDate(s, "-")
        us  == SplitDate(s, "/")
        isoOk == iso # <<>> /\ IsYear4(iso[1]) /\ IsMonth(iso[2]) /\ IsDay(iso[3])
                   /\ ValidDate(Num(iso[1]), Num(iso[2]), Num(iso[3]))
        us4Ok == us # <<>> /\ IsMonth(us[1]) /\ IsDay(us[2]) /\ IsYear4(us[3])
                   /\ ValidDate(Num(us[3]), Num(us[1]), Num(us[2]))
        us2Ok == us # <<>> /\ IsMonth(us[1]) /\ IsDay(us[2]) /\ IsYear2(us[3])
                   /\ ValidDate(Year2(us[3]), Num(us[1]), Num(us[2]))
    IN  IF isoOk THEN <<Num(iso[1]), Num(iso[2]), Num(iso[3])>>
        ELSE IF us4Ok THEN <<Num(us[3]), Num(us[1]), Num(us[2])>>
        ELSE IF us2Ok THEN <<Year2(us[3]), Num(us[1]), Num(us[2])>>
        ELSE NoDate

\* ORDER BY due_date ASC: NULL sorts before every date, dates by (y, m, d)
DateLeq(a, b) ==
    \/ a = NoDate
    \/ /\ a # NoDate
       /\ b # NoDate
       /\ \/ a[1] < b[1]
          \/ a[1] = b[1] /\ a[2] < b[2]
          \/ a[1] = b[1] /\ a[2] = b[2] /\ a[3] <= b[3]

(***************************************************************************)
(* TodoForm: the ModelForm of Todo.  Its form fields come from the model   *)
(* fields: title is required (blank=False) with max_length 200, and        *)
(* description and due_date are optional (blank=True).                     *)
(***************************************************************************)
TodoFormFields == {"title", "description", "due_date"}

\* QueryDict.get(name): the last value submitted, '' standing for no value
Submitted(vals) == IF vals = <<>> THEN <<>> ELSE vals[Len(vals)]

\* as if the field were declared with strip=False
TitleCleanUnstripped(vals) ==
    LET value == Submitted(vals)
    IN  [value |-> value,
         error |-> IF value = <<>> THEN "required"
                   ELSE IF Len(value) > TitleMaxLength THEN "max_length"
                   ELSE "none"]

\* as if max_length were checked on the text as submitted, before the strip
TitleCleanRawLength(vals) ==
    LET value == Strip(Submitted(vals))
    IN  [value |-> value,
         error |-> IF value = <<>> THEN "required"
                   ELSE IF Len(Submitted(vals)) > TitleMaxLength THEN "max_length"
                   ELSE "none"]

\* forms.CharField.to_python strips before the required and max_length checks
TitleClean(vals) ==
    LET value == Strip(Submitted(vals))
    IN  [value |-> value,
         error |-> IF value = <<>> THEN "required"
                   ELSE IF Len(value) > TitleMaxLength THEN "max_length"
                   ELSE "none"]

\* as if the field were declared with strip=False
DescriptionCleanUnstripped(vals) == [value |-> Submitted(vals), error |-> "none"]

\* TextField(blank=True): forms.CharField(required=False), stripped, '' when empty
DescriptionClean(vals) == [value |-> Strip(Submitted(vals)), error |-> "none"]

\* as if the field were declared with input_formats=['%Y-%m-%d']
DueDateCleanIsoOnly(vals) ==
    LET raw == Submitted(vals)
        d   == IF SplitDate(Strip(raw), "-") # <<>> THEN Strptime(Strip(raw)) ELSE NoDate
    IN  IF raw = <<>> THEN [value |-> NoDate, error |-> "none"]
        ELSE [value |-> d, error |-> IF d = NoDate THEN "invalid" ELSE "none"]

\* forms.DateField(required=False): empty is None, else strip and strptime
DueDateClean(vals) ==
    LET raw == Submitted(vals)
        d   == Strptime(Strip(raw))
    IN  IF raw = <<>> THEN [value |-> NoDate, error |-> "none"]
        ELSE [value |-> d, error |-> IF d = NoDate THEN "invalid" ELSE "none"]

FieldClean(f, data) ==
    CASE f = "title" -> TitleClean(data[f])
      [] f = "description" -> DescriptionClean(data[f])
      [] f = "due_date" -> DueDateClean(data[f])

\* as if the view saved without asking is_valid()
FormErrorsSkipped(data) == {}

\* as if the title were the only field validated
FormErrorsTitleOnly(data) ==
    {<<f, FieldClean(f, data).error>> : f \in {g \in {"title"} : FieldClean(g, data).error # "none"}}

\* as if the title were declared unique=True
FormErrorsUniqueTitle(data) ==
    {<<f, FieldClean(f, data).error>> : f \in {g \in TodoFormFields : FieldClean(g, data).error # "none"}}
        \cup {<<"title", "unique">> : pk \in {k \in DOMAIN objects :
                                                 objects[k].title = FieldClean("title", data).value}}

\* form.errors, as the set of <<field, code>>
FormErrors(data) ==
    {<<f, FieldClean(f, data).error>> : f \in {g \in TodoFormFields : FieldClean(g, data).error # "none"}}

CleanedData(data) == [f \in TodoFormFields |-> FieldClean(f, data).value]

\* as if a resolved todo were closed to edits
ConstructInstanceFrozen(instance, cleaned_data) ==
    [f \in DOMAIN instance |->
        IF f \in TodoFormFields /\ ~instance.resolved THEN cleaned_data[f] ELSE instance[f]]

\* as if an empty cleaned value left the instance attribute alone
ConstructInstanceKeepsEmpty(instance, cleaned_data) ==
    [f \in DOMAIN instance |->
        IF f \in TodoFormFields /\ cleaned_data[f] # <<>> THEN cleaned_data[f] ELSE instance[f]]

\* as if the form built a new Todo instead of updating the one looked up
ConstructInstanceFresh(instance, cleaned_data) ==
    [f \in DOMAIN instance |->
        IF f \in TodoFormFields THEN cleaned_data[f]
        ELSE IF f = "resolved" THEN FALSE ELSE instance[f]]

\* construct_instance: every form field overwrites the instance attribute
\* (no Todo form field has a model default, so an omitted one is not skipped)
ConstructInstance(instance, cleaned_data) ==
    [f \in DOMAIN instance |->
        IF f \in TodoFormFields THEN cleaned_data[f] ELSE instance[f]]

(***************************************************************************)
(* The Todo model.                                                         *)
(***************************************************************************)
Null == <<"NULL">>

\* as if resolved were declared default=True
NewTodoResolved ==
    [title |-> <<>>, description |-> Null, due_date |-> NoDate, resolved |-> TRUE,
     created_at |-> 0, updated_at |-> 0]

\* Todo(): the field defaults of an unsaved instance
NewTodo ==
    [title |-> <<>>, description |-> Null, due_date |-> NoDate, resolved |-> FALSE,
     created_at |-> 0, updated_at |-> 0]

\* as if updated_at were declared auto_now_add: stamped on insert alone
PreSaveAddOnly(row, add, t) ==
    [row EXCEPT !.created_at = IF add THEN t ELSE @, !.updated_at = IF add THEN t ELSE @]

\* as if the two declarations were exchanged: created_at auto_now, updated_at
\* auto_now_add
PreSaveSwapped(row, add, t) ==
    [row EXCEPT !.created_at = t, !.updated_at = IF add THEN t ELSE @]

\* as if created_at were declared auto_now too
PreSaveStampsBoth(row, add, t) == [row EXCEPT !.created_at = t, !.updated_at = t]

\* pre_save of the DateTimeFields: auto_now_add on insert, auto_now on every save
PreSave(row, add, t) ==
    [row EXCEPT !.created_at = IF add THEN t ELSE @, !.updated_at = t]

\* as if the key were one more than the largest key stored
NewPkAfterLargest == IF DOMAIN objects = {} THEN 1 ELSE SetMax(DOMAIN objects) + 1

\* the AutoField primary key an INSERT receives
NewPk == nextId

\* as if the UPDATE had no WHERE clause
SaveRowEvery(table, pk, row) == [k \in DOMAIN table \cup {pk} |-> row]

\* as if save() wrote a copy as well: a second INSERT under the next free key
SaveRowAndCopy(table, pk, row) ==
    [k \in DOMAIN table \cup {pk, SetMax(DOMAIN table \cup {pk}) + 1} |->
        IF k \in DOMAIN table \ {pk} THEN table[k] ELSE row]

\* INSERT / UPDATE of one row by Model.save()
SaveRow(table, pk, row) == [k \in DOMAIN table \cup {pk} |-> IF k = pk THEN row ELSE table[k]]

\* as if the DELETE had no WHERE clause
DeleteRowsAll(table, ids) == [k \in {} |-> table[k]]

\* DELETE ... WHERE id IN ids
DeleteRows(table, ids) == [k \in DOMAIN table \ ids |-> table[k]]

\* a row as the list view hands it to the template
Instance(pk) == [id |-> pk] @@ objects[pk]

\* as if Meta.ordering were ['id']
OrderedById(table) ==
    LET n == Cardinality(DOMAIN table)
    IN  {q \in [1..n -> DOMAIN table] : \A i, j \in 1..n : i < j => q[i] < q[j]}

\* Meta.ordering = ['due_date']: the orders the query may return
Ordered(table) ==
    LET n == Cardinality(DOMAIN table)
    IN  {q \in [1..n -> DOMAIN table] :
            /\ \A i, j \in 1..n : i # j => q[i] # q[j]
            /\ \A i, j \in 1..n : i < j => DateLeq(table[q[i]].due_date, table[q[j]].due_date)}

(***************************************************************************)
(* Requests: the POST bodies and primary keys the model submits.           *)
(***************************************************************************)
TitleInputs ==
    {<<>>,
     <<<<" ", " ">>>>,
     <<<<" ", "b", " ">>>>,
     <<<<" ">> \o Rep("a", TitleMaxLength)>>,
     <<Rep("a", TitleMaxLength + 1)>>}

DescriptionInputs == {<<>>, <<<<" ", "x", "\n", "x", " ">>>>}

Jan05 == <<"2", "0", "2", "5", "-", "0", "1", "-", "0", "5">>

Dec25 == <<"2", "0", "2", "5", "-", "1", "2", "-", "2", "5">>

Feb30 == <<"2", "0", "2", "5", "-", "0", "2", "-", "3", "0">>

\* 5 January 2025 written month/day/year
Jan05US == <<"0", "1", "/", "0", "5", "/", "2", "0", "2", "5">>

On == <<"o", "n">>

\* title alone, in each of its forms
TitleOnly ==
    [title : TitleInputs, description : {<<>>}, due_date : {<<>>}, resolved : {<<>>}]

\* a title with a description and a due date: ISO, ISO but no calendar date,
\* and month/day/year
Filled ==
    [title : {<<<<" ", "b", " ">>>>}, description : DescriptionInputs \ {<<>>},
     due_date : {<<Jan05>>, <<Feb30>>, <<Jan05US>>}, resolved : {<<>>}]

\* a due date and a resolved checkbox, with and without a title
Dated ==
    [title : {<<>>, <<<<" ">> \o Rep("a", TitleMaxLength)>>}, description : {<<>>},
     due_date : {<<Dec25>>}, resolved : {<<On>>}]

Submissions == TitleOnly \cup Filled \cup Dated

\* the bound form of every submission: is_valid() is errors = {}
TodoForm ==
    [data \in Submissions |->
        [errors |-> FormErrors(data), cleaned_data |-> CleanedData(data)]]

\* every primary key issued so far, and one that never was
Pks == 1..nextId

\* a body with none of the form's keys
EmptyBody == [title |-> <<>>, description |-> <<>>, due_date |-> <<>>, resolved |-> <<>>]

\* a request and the time it is served at
Request(op, pk, data, selected) ==
    [op |-> op, pk |-> pk, data |-> data, selected |-> selected, at |-> now]

Response(status, errors, todos) == [status |-> status, errors |-> errors, todos |-> todos]

\* redirect('todo-list') / success_url
Redirect == Response(302, {}, <<>>)

\* as if a missing row were passed over in silence
Http404Ignored == Response(302, {}, <<>>)

\* get_object_or_404, get_object: no row with this pk
Http404 == Response(404, {}, <<>>)

\* View.http_method_not_allowed: the view class has no handler for the method
MethodNotAllowed == Response(405, {}, <<>>)

\* a template rendered for one object, or for none (the empty create form)
Rendered(todos) == Response(200, {}, todos)

\* form_invalid: the form rendered again with its errors
FormInvalid(errors) == Response(200, errors, <<>>)

\* as if the view marked the todo done instead of flipping it
ToggleSetsTrue(row) == [row EXCEPT !.resolved = TRUE]

\* todo.resolved = not todo.resolved
Toggle(row) == [row EXCEPT !.resolved = ~@]

NoRun == [pk |-> 0, n |-> 0, orig |-> FALSE]

\* the request handlers that run side by side
Workers == {1, 2}

\* a handler with no request
Idle ==
    [stage |-> "idle", op |-> "none", pk |-> 0, data |-> EmptyBody, object |-> NewTodo,
     status |-> 0, read |-> 0, wrote |-> 0]

Init ==
    /\ objects = <<>>
    /\ nextId = 1
    /\ now = 0
    /\ request = Request("none", 0, EmptyBody, {})
    /\ response = Response(0, {}, <<>>)
    /\ issued = <<>>
    /\ deleted = {}
    /\ run = NoRun
    /\ steps = 0
    /\ before = <<>>
    /\ inflight = [w \in Workers |-> Idle]

\* timezone.now() does not go back between requests
Tick ==
    /\ now' = now + 1
    /\ UNCHANGED <<objects, nextId, request, response, issued, deleted, run>>

\* as if the view kept the queryset it evaluated for an earlier request
TodoListViewGetCached ==
    /\ request' = Request("list", 0, EmptyBody, {})
    /\ \E q \in Ordered(before) :
          response' = Response(200, {}, [i \in DOMAIN q |-> [id |-> q[i]] @@ before[q[i]]])
    /\ run' = NoRun
    /\ UNCHANGED <<objects, nextId, now, issued, deleted>>

\* GET /
TodoListViewGet ==
    /\ request' = Request("list", 0, EmptyBody, {})
    /\ \E q \in Ordered(objects) :
          response' = Response(200, {}, [i \in DOMAIN q |-> Instance(q[i])])
    /\ run' = NoRun
    /\ UNCHANGED <<objects, nextId, now, issued, deleted>>

TodoListView == TodoListViewGet

\* POST /create/
TodoCreateViewPost(data) ==
    /\ request' = Request("create", 0, data, {})
    /\ run' = NoRun
    /\ IF TodoForm[data].errors = {}
       THEN /\ objects' = SaveRow(objects, NewPk,
                    PreSave(ConstructInstance(NewTodo, TodoForm[data].cleaned_data), TRUE, now))
            /\ nextId' = nextId + 1
            /\ issued' = Append(issued, NewPk)
            /\ response' = Redirect
            /\ UNCHANGED <<now, deleted>>
       ELSE /\ response' = FormInvalid(TodoForm[data].errors)
            /\ UNCHANGED <<objects, nextId, now, issued, deleted>>

\* GET /create/: the empty form
TodoCreateViewGet ==
    /\ request' = Request("create-form", 0, EmptyBody, {})
    /\ response' = Rendered(<<>>)
    /\ run' = NoRun
    /\ UNCHANGED <<objects, nextId, now, issued, deleted>>

TodoCreateView == TodoCreateViewGet \/ \E data \in Submissions : TodoCreateViewPost(data)

\* as if the form were validated before the row is looked up
TodoUpdateViewPostValidatesFirst(pk, data) ==
    /\ request' = Request("edit", pk, data, {})
    /\ run' = NoRun
    /\ IF TodoForm[data].errors # {}
       THEN /\ response' = FormInvalid(TodoForm[data].errors)
            /\ UNCHANGED <<objects, nextId, now, issued, deleted>>
       ELSE IF pk \notin DOMAIN objects
       THEN /\ response' = Http404
            /\ UNCHANGED <<objects, nextId, now, issued, deleted>>
       ELSE /\ objects' = SaveRow(objects, pk,
                    PreSave(ConstructInstance(objects[pk], TodoForm[data].cleaned_data),
                            FALSE, now))
            /\ response' = Redirect
            /\ UNCHANGED <<nextId, now, issued, deleted>>

\* POST /<pk>/edit/
TodoUpdateViewPost(pk, data) ==
    /\ request' = Request("edit", pk, data, {})
    /\ run' = NoRun
    /\ IF pk \notin DOMAIN objects
       THEN /\ response' = Http404
            /\ UNCHANGED <<objects, nextId, now, issued, deleted>>
       ELSE IF TodoForm[data].errors = {}
       THEN /\ objects' = SaveRow(objects, pk,
                    PreSave(ConstructInstance(objects[pk], TodoForm[data].cleaned_data),
                            FALSE, now))
            /\ response' = Redirect
            /\ UNCHANGED <<nextId, now, issued, deleted>>
       ELSE /\ response' = FormInvalid(TodoForm[data].errors)
            /\ UNCHANGED <<objects, nextId, now, issued, deleted>>

\* GET /<pk>/edit/: the form filled with the stored values
TodoUpdateViewGet(pk) ==
    /\ request' = Request("edit-form", pk, EmptyBody, {})
    /\ response' = IF pk \in DOMAIN objects THEN Rendered(<<Instance(pk)>>) ELSE Http404
    /\ run' = NoRun
    /\ UNCHANGED <<objects, nextId, now, issued, deleted>>

TodoUpdateView ==
    \E pk \in Pks : TodoUpdateViewGet(pk) \/ \E data \in Submissions : TodoUpdateViewPost(pk, data)

\* POST /<pk>/delete/
TodoDeleteViewPost(pk) ==
    /\ request' = Request("delete", pk, EmptyBody, {})
    /\ run' = NoRun
    /\ IF pk \notin DOMAIN objects
       THEN /\ response' = Http404
            /\ UNCHANGED <<objects, nextId, now, issued, deleted>>
       ELSE /\ objects' = DeleteRows(objects, {pk})
            /\ deleted' = deleted \cup {pk}
            /\ response' = Redirect
            /\ UNCHANGED <<nextId, now, issued>>

\* GET /<pk>/delete/: the confirmation page
TodoDeleteViewGet(pk) ==
    /\ request' = Request("delete-confirm", pk, EmptyBody, {})
    /\ response' = IF pk \in DOMAIN objects THEN Rendered(<<Instance(pk)>>) ELSE Http404
    /\ run' = NoRun
    /\ UNCHANGED <<objects, nextId, now, issued, deleted>>

TodoDeleteView == \E pk \in Pks : TodoDeleteViewGet(pk) \/ TodoDeleteViewPost(pk)

\* POST /<pk>/resolve/
TodoResolveViewPost(pk) ==
    /\ request' = Request("resolve", pk, EmptyBody, {})
    /\ IF pk \notin DOMAIN objects
       THEN /\ response' = Http404
            /\ run' = NoRun
            /\ UNCHANGED <<objects, nextId, now, issued, deleted>>
       ELSE /\ objects' = SaveRow(objects, pk, PreSave(Toggle(objects[pk]), FALSE, now))
            /\ run' = IF run.pk = pk THEN [run EXCEPT !.n = @ + 1]
                      ELSE [pk |-> pk, n |-> 1, orig |-> objects[pk].resolved]
            /\ response' = Redirect
            /\ UNCHANGED <<nextId, now, issued, deleted>>

\* as if the view answered GET the way it answers POST
TodoResolveViewGetToggles(pk) ==
    /\ request' = Request("resolve-get", pk, EmptyBody, {})
    /\ run' = NoRun
    /\ IF pk \notin DOMAIN objects
       THEN /\ response' = Http404
            /\ UNCHANGED <<objects, nextId, now, issued, deleted>>
       ELSE /\ objects' = SaveRow(objects, pk, PreSave(Toggle(objects[pk]), FALSE, now))
            /\ response' = Redirect
            /\ UNCHANGED <<nextId, now, issued, deleted>>

\* GET /<pk>/resolve/: the class defines post alone, dispatch refuses the method
\* before any lookup
TodoResolveViewGet(pk) ==
    /\ request' = Request("resolve-get", pk, EmptyBody, {})
    /\ response' = MethodNotAllowed
    /\ run' = NoRun
    /\ UNCHANGED <<objects, nextId, now, issued, deleted>>

TodoResolveView == \E pk \in Pks : TodoResolveViewGet(pk) \/ TodoResolveViewPost(pk)

\* str(pk), for the one-digit keys of the model
PkText(pk) == <<CHOOSE c \in DOMAIN DigitVal : DigitVal[c] = pk>>

\* IntegerField.get_prep_value: int(value) succeeds on digits, else ValueError
IsInt(text) == text # <<>> /\ IsDigits(text)

\* the values of selected_todos a request may carry: any choice of issued keys
\* (and the one not issued yet), and a value that is no number, alone or with
\* a key
Selections ==
    SUBSET {PkText(pk) : pk \in Pks} \cup {{<<"a">>}, {PkText(1), <<"a">>}}

\* the uncaught ValueError of filter(pk__in=...): the request fails, no query
\* is run
ServerError == Response(500, {}, <<>>)

\* as if the guard on an empty selection were missing and the delete ran over
\* the unfiltered queryset
TodoBulkDeleteViewPostUnguarded(selected_ids) ==
    /\ request' = Request("bulk-delete", 0, EmptyBody, selected_ids)
    /\ run' = NoRun
    /\ UNCHANGED <<nextId, now, issued>>
    /\ IF selected_ids = {}
       THEN /\ objects' = DeleteRows(objects, DOMAIN objects)
            /\ deleted' = deleted \cup DOMAIN objects
            /\ response' = Redirect
       ELSE IF \E v \in selected_ids : ~IsInt(v)
       THEN /\ response' = ServerError
            /\ UNCHANGED <<objects, deleted>>
       ELSE LET ids == {Num(v) : v \in selected_ids}
            IN  /\ objects' = DeleteRows(objects, ids)
                /\ deleted' = deleted \cup (ids \cap DOMAIN objects)
                /\ response' = Redirect

\* POST /bulk-delete/
TodoBulkDeleteViewPost(selected_ids) ==
    /\ request' = Request("bulk-delete", 0, EmptyBody, selected_ids)
    /\ run' = NoRun
    /\ UNCHANGED <<nextId, now, issued>>
    /\ IF selected_ids = {}
       THEN /\ response' = Redirect
            /\ UNCHANGED <<objects, deleted>>
       ELSE IF \E v \in selected_ids : ~IsInt(v)
       THEN /\ response' = ServerError
            /\ UNCHANGED <<objects, deleted>>
       ELSE LET ids == {Num(v) : v \in selected_ids}
            IN  /\ objects' = DeleteRows(objects, ids)
                /\ deleted' = deleted \cup (ids \cap DOMAIN objects)
                /\ response' = Redirect

TodoBulkDeleteView == \E selected_ids \in Selections : TodoBulkDeleteViewPost(selected_ids)

Step ==
    /\ steps < MaxSteps
    /\ steps' = steps + 1
    /\ inflight' = inflight

\* a request is served: before keeps the table as the request found it
Serve == Step /\ before' = objects

Next ==
    \/ Step /\ Tick /\ before' = before
    \/ Serve /\ TodoListView
    \/ Serve /\ TodoCreateView
    \/ Serve /\ TodoUpdateView
    \/ Serve /\ TodoDeleteView
    \/ Serve /\ TodoResolveView
    \/ Serve /\ TodoBulkDeleteView

Spec == Init /\ [][Next]_vars

(***************************************************************************)
(* Requests served side by side.  Each view that works on one todo looks   *)
(* the row up and writes in a later statement; no transaction or lock      *)
(* spans the two, so statements of two requests interleave.  Here before   *)
(* keeps the table as it was when the requests arrived.                    *)
(***************************************************************************)
\* the todo in store when the requests arrive: saved by a create at time 0, and
\* toggled or not since
StoredTitle == <<<<" ">> \o Rep("a", TitleMaxLength)>>

StoredBody ==
    [title |-> StoredTitle, description |-> <<>>, due_date |-> <<Dec25>>, resolved |-> <<On>>]

Stored(resolved) ==
    [PreSave(ConstructInstance(NewTodo, TodoForm[StoredBody].cleaned_data), TRUE, 0)
        EXCEPT !.resolved = resolved]

\* the bodies an edit in flight submits: one that validates, one that does not
EditBodies ==
    {data \in Filled : data.due_date = <<Jan05>>}
        \cup {data \in TitleOnly : data.title = <<>>}

ConcurrentInit ==
    /\ \E resolved \in BOOLEAN : objects = 1 :> Stored(resolved)
    /\ before = objects
    /\ nextId = 2
    /\ issued = <<1>>
    /\ now = 0
    /\ request = Request("none", 0, EmptyBody, {})
    /\ response = Response(0, {}, <<>>)
    /\ deleted = {}
    /\ run = NoRun
    /\ steps = 0
    /\ inflight = [w \in Workers |-> Idle]

\* every statement of a request in flight takes one step of the history
Statement ==
    /\ steps' = steps + 1
    /\ UNCHANGED <<nextId, request, response, before, issued, run>>

\* a handler ends with this status
Finished(w, status) ==
    [inflight[w] EXCEPT !.stage = "done", !.status = status, !.wrote = steps + 1]

\* get_object_or_404 / get_object: the SELECT that opens resolve, edit and delete
GetObject(w, op, pk, data) ==
    /\ inflight[w].stage = "idle"
    /\ Statement
    /\ UNCHANGED <<objects, now, deleted>>
    /\ LET asked == [Idle EXCEPT !.op = op, !.pk = pk, !.data = data, !.read = steps + 1]
       IN  inflight' =
              [inflight EXCEPT ![w] =
                  IF pk \in DOMAIN objects
                  THEN [asked EXCEPT !.stage = "loaded", !.object = objects[pk]]
                  ELSE [asked EXCEPT !.stage = "done", !.status = 404, !.wrote = steps + 1]]

\* Model.save() of an instance read earlier: UPDATE by pk, and INSERT when the
\* UPDATE matched no row; the INSERT stamps created_at again
Save(table, pk, row, t) == SaveRow(table, pk, PreSave(row, pk \notin DOMAIN table, t))

\* todo.resolved = not todo.resolved; todo.save(); redirect
ResolveSave(w) ==
    /\ inflight[w].stage = "loaded"
    /\ inflight[w].op = "resolve"
    /\ Statement
    /\ objects' = Save(objects, inflight[w].pk, Toggle(inflight[w].object), now)
    /\ inflight' = [inflight EXCEPT ![w] = Finished(w, 302)]
    /\ UNCHANGED <<now, deleted>>

\* UpdateView.post after get_object: form_valid saves, form_invalid renders
FormSave(w) ==
    /\ inflight[w].stage = "loaded"
    /\ inflight[w].op = "edit"
    /\ Statement
    /\ UNCHANGED <<now, deleted>>
    /\ IF TodoForm[inflight[w].data].errors = {}
       THEN /\ objects' = Save(objects, inflight[w].pk,
                                ConstructInstance(inflight[w].object,
                                                  TodoForm[inflight[w].data].cleaned_data),
                                now)
            /\ inflight' = [inflight EXCEPT ![w] = Finished(w, 302)]
       ELSE /\ objects' = objects
            /\ inflight' = [inflight EXCEPT ![w] = Finished(w, 200)]

\* DeleteView.post after get_object: DELETE by pk, whether the row is still there
ObjectDelete(w) ==
    /\ inflight[w].stage = "loaded"
    /\ inflight[w].op = "delete"
    /\ Statement
    /\ objects' = DeleteRows(objects, {inflight[w].pk})
    /\ deleted' = deleted \cup ({inflight[w].pk} \cap DOMAIN objects)
    /\ inflight' = [inflight EXCEPT ![w] = Finished(w, 302)]
    /\ UNCHANGED now

\* the clock between two statements
ClockTick ==
    /\ steps < MaxSteps
    /\ Statement
    /\ now' = now + 1
    /\ UNCHANGED <<objects, deleted, inflight>>

ConcurrentNext ==
    \/ \E w \in Workers, pk \in Pks : GetObject(w, "resolve", pk, EmptyBody)
    \/ \E w \in Workers, pk \in Pks : GetObject(w, "delete", pk, EmptyBody)
    \/ \E w \in Workers, pk \in Pks, data \in EditBodies : GetObject(w, "edit", pk, data)
    \/ \E w \in Workers : ResolveSave(w)
    \/ \E w \in Workers : FormSave(w)
    \/ \E w \in Workers : ObjectDelete(w)
    \/ ClockTick

SpecConcurrent == ConcurrentInit /\ [][ConcurrentNext]_vars

(***************************************************************************)
(* Properties.  request, response and before describe the last request     *)
(* served: what was asked, what was answered, and the table it found.      *)
(***************************************************************************)
ByPk == {"edit", "delete", "resolve"}

\* C1: edit, delete and toggle-resolve on an id that has no row (never created,
\* or deleted) answer 404 and leave the whole table as it was.
C1_NotFoundChangesNothing ==
    (request.op \in ByPk /\ request.pk \notin DOMAIN before)
        => (response.status = 404 /\ objects = before)

\* a 404 for a deleted id while another todo is stored
C1_Witness ==
    /\ request.op \in ByPk
    /\ request.pk \in deleted
    /\ response.status = 404
    /\ objects # <<>>

\* C2: after n successive toggle-resolve calls on one existing todo, resolved
\* is the original value when n is even and its negation when n is odd.
C2_ToggleParity ==
    run.n > 0 =>
        /\ run.pk \in DOMAIN objects
        /\ objects[run.pk].resolved = (IF run.n % 2 = 0 THEN run.orig ELSE ~run.orig)

\* two toggles in succession, back at the original value
C2_Witness == run.n = 2 /\ objects[run.pk].resolved = run.orig

Ordinal(d) == d[1] * 10000 + d[2] * 100 + d[3]

\* C3: the list holds the stored todos, those without a due date first, then by
\* ascending due date, whatever their resolved flags and creation times.
C3_ListOrderedByDueDate ==
    request.op = "list" =>
        LET t == response.todos
        IN  /\ Len(t) = Cardinality(DOMAIN objects)
            /\ \A pk \in DOMAIN objects : \E i \in 1..Len(t) : t[i] = Instance(pk)
            /\ \A i, j \in 1..Len(t) :
                  i < j =>
                     /\ t[j].due_date = NoDate => t[i].due_date = NoDate
                     /\ (t[i].due_date # NoDate /\ t[j].due_date # NoDate)
                           => Ordinal(t[i].due_date) <= Ordinal(t[j].due_date)

\* a resolved, later-created todo listed before an unresolved, earlier one
C3_Witness ==
    /\ request.op = "list"
    /\ Len(response.todos) = 2
    /\ response.todos[1].due_date # response.todos[2].due_date
    /\ response.todos[1].resolved
    /\ ~response.todos[2].resolved
    /\ response.todos[1].id > response.todos[2].id

\* the last request was an edit that supplied a title and nothing else, and it
\* was saved
TitleOnlyEditSaved ==
    /\ request.op = "edit"
    /\ request.data \in TitleOnly
    /\ response.status = 302

\* C4 as claimed: an edit that submits only a title keeps resolved, created_at
\* and due_date as they were.
C4_TitleOnlyEditKeepsDueDate ==
    TitleOnlyEditSaved =>
        /\ objects[request.pk].resolved = before[request.pk].resolved
        /\ objects[request.pk].created_at = before[request.pk].created_at
        /\ objects[request.pk].due_date = before[request.pk].due_date

\* C4, amended: an edit that submits only a title keeps resolved and created_at,
\* stores the trimmed title and the current time as updated_at, and clears the
\* omitted fields: no due date, empty description.
C4_TitleOnlyEditClearsOmitted ==
    TitleOnlyEditSaved =>
        /\ objects[request.pk].resolved = before[request.pk].resolved
        /\ objects[request.pk].created_at = before[request.pk].created_at
        /\ objects[request.pk].due_date = NoDate
        /\ objects[request.pk].description = <<>>
        /\ objects[request.pk].title = Strip(request.data.title[1])
        /\ objects[request.pk].updated_at = request.at

\* a title-only edit of a resolved todo that had a due date and a description
C4_Witness ==
    /\ TitleOnlyEditSaved
    /\ before[request.pk].resolved
    /\ before[request.pk].due_date # NoDate
    /\ before[request.pk].description # <<>>

\* C5: an id whose delete succeeded never has a row again, is in no later list,
\* and every later edit, toggle or delete on it answers 404.
C5_DeleteIsPermanent ==
    \A x \in deleted :
        /\ x \notin DOMAIN objects
        /\ (request.op \in ByPk /\ request.pk = x /\ x \notin DOMAIN before)
              => response.status = 404
        /\ request.op = "list"
              => \A i \in 1..Len(response.todos) : response.todos[i].id # x

\* a second delete of a deleted id, after a later create, answers 404
C5_Witness ==
    /\ request.op = "delete"
    /\ request.pk \in deleted
    /\ response.status = 404
    /\ Len(issued) = 2
    /\ DOMAIN objects = {issued[2]}

\* C6: the ids handed out by create are pairwise different over the whole
\* history, deleted ones included, and every stored todo sits under the id it
\* was created with.
C6_IdsNeverReused ==
    /\ \A i, j \in 1..Len(issued) : i # j => issued[i] # issued[j]
    /\ \A pk \in DOMAIN objects : \E i \in 1..Len(issued) : issued[i] = pk
    /\ \A pk \in DOMAIN objects \ DOMAIN before :
          request.op = "create" /\ pk = issued[Len(issued)]

\* a create after a delete
C6_Witness ==
    /\ Len(issued) = 2
    /\ issued[1] \in deleted
    /\ issued[2] \in DOMAIN objects
    /\ request.op = "create"

\* the claim's three ways for a submission to fail validation
FailsValidation(data) ==
    \/ data.title = <<>>
    \/ data.title = <<Rep("a", 201)>>
    \/ data.due_date = <<Feb30>>

\* C7: a create whose values fail validation (missing title, over-long title,
\* invalid due date) stores nothing and answers 200 with field errors.
C7_InvalidCreateStoresNothing ==
    (request.op = "create" /\ FailsValidation(request.data))
        => /\ objects = before
           /\ response.status = 200
           /\ response.errors # {}

\* a create rejected for its due date while a todo is stored
C7_Witness ==
    /\ request.op = "create"
    /\ request.data.due_date = <<Feb30>>
    /\ response.status = 200
    /\ \E e \in response.errors : e[1] = "due_date"
    /\ objects # <<>>

\* no title submitted, or one of whitespace alone
BlankTitle(data) ==
    \/ data.title = <<>>
    \/ \A i \in 1..Len(data.title[1]) : data.title[1][i] \in Whitespace

\* C8: every stored title has a character that is not whitespace, and a create
\* or edit whose title is empty or whitespace stores and changes nothing.
C8_TitleNeverBlank ==
    /\ \A pk \in DOMAIN objects :
          \E i \in 1..Len(objects[pk].title) : objects[pk].title[i] \notin Whitespace
    /\ (request.op \in {"create", "edit"} /\ BlankTitle(request.data))
          => (objects = before /\ response.status # 302)

\* an edit with a whitespace title, rejected
C8_Witness ==
    /\ request.op = "edit"
    /\ request.data.title = <<<<" ", " ">>>>
    /\ response.status = 200
    /\ <<"title", "required">> \in response.errors

\* the row the last create or edit wrote, if it wrote one
Written == IF request.op = "edit" THEN request.pk ELSE issued[Len(issued)]

\* C9: a title of 200 characters after trimming is saved by create and edit,
\* one of 201 characters is rejected and nothing is stored or changed.
C9_TitleLengthBound ==
    (/\ request.op \in {"create", "edit"}
     /\ request.op = "edit" => request.pk \in DOMAIN before)
        => /\ (/\ request.data.title = <<<<" ">> \o Rep("a", 200)>>
               /\ request.data.due_date # <<Feb30>>)
                 => /\ response.status = 302
                    /\ Written \in DOMAIN objects
                    /\ objects[Written].title = Rep("a", 200)
           /\ request.data.title = <<Rep("a", 201)>>
                 => /\ response.status = 200
                    /\ objects = before

\* an edit saved a title that is 200 characters once trimmed
C9_Witness ==
    /\ request.op = "edit"
    /\ request.data.title = <<<<" ">> \o Rep("a", 200)>>
    /\ response.status = 302
    /\ Len(objects[request.pk].title) = 200
    /\ Len(before[request.pk].title) < 200

\* C10: a todo starts unresolved whatever the create submission holds, and its
\* resolved flag changes only in a toggle-resolve request on its id.
C10_ResolvedOnlyByToggle ==
    /\ \A pk \in DOMAIN objects \ DOMAIN before : ~objects[pk].resolved
    /\ \A pk \in DOMAIN objects \cap DOMAIN before :
          objects[pk].resolved # before[pk].resolved
             => (request.op = "resolve" /\ request.pk = pk)

\* an edit that submits resolved=on for an unresolved todo, saved
C10_Witness ==
    /\ request.op = "edit"
    /\ request.data.resolved = <<On>>
    /\ response.status = 302
    /\ ~objects[request.pk].resolved

\* the last request was this operation on a stored todo, and it succeeded
Succeeded(op) ==
    /\ request.op = op
    /\ request.pk \in DOMAIN before
    /\ response.status = 302

\* C11: a successful toggle-resolve on an id leaves every other todo as it was,
\* in every field, and keeps the target's title, description, due_date and
\* created_at under the same id; the table holds the same ids as before.
C11_ToggleTouchesOnlyTarget ==
    Succeeded("resolve") =>
        /\ DOMAIN objects = DOMAIN before
        /\ \A pk \in DOMAIN before \ {request.pk} : objects[pk] = before[pk]
        /\ objects[request.pk].title = before[request.pk].title
        /\ objects[request.pk].description = before[request.pk].description
        /\ objects[request.pk].due_date = before[request.pk].due_date
        /\ objects[request.pk].created_at = before[request.pk].created_at

\* a toggle of one todo while another, resolved and with other values, is stored
C11_Witness ==
    /\ Succeeded("resolve")
    /\ \E pk \in DOMAIN objects \ {request.pk} :
          /\ objects[pk].resolved
          /\ objects[pk].title # objects[request.pk].title
          /\ objects[pk].due_date # objects[request.pk].due_date

\* C12: a successful delete of an id removes that row and no other: every other
\* todo stays stored with all its fields, and the count drops by exactly one.
C12_DeleteRemovesOnlyTarget ==
    Succeeded("delete") =>
        /\ DOMAIN objects = DOMAIN before \ {request.pk}
        /\ \A pk \in DOMAIN objects : objects[pk] = before[pk]
        /\ Cardinality(DOMAIN objects) = Cardinality(DOMAIN before) - 1

\* a delete of one todo out of two
C12_Witness ==
    /\ Succeeded("delete")
    /\ Cardinality(DOMAIN before) = 2
    /\ Cardinality(DOMAIN objects) = 1

C14_CreatedNotAfterUpdated ==
    \A pk \in DOMAIN objects : objects[pk].created_at <= objects[pk].updated_at

\* a todo modified at a later time than it was created
C14_Witness ==
    \E pk \in DOMAIN objects :
        /\ objects[pk].created_at < objects[pk].updated_at
        /\ objects[pk].resolved

\* C15: created_at is the time of the create that stored the todo, and no later
\* request, edit or toggle-resolve, changes it.
C15_CreatedAtFixed ==
    /\ \A pk \in DOMAIN objects \cap DOMAIN before :
          objects[pk].created_at = before[pk].created_at
    /\ \A pk \in DOMAIN objects \ DOMAIN before : objects[pk].created_at = request.at

\* an edit served later than the create: created_at kept, updated_at moved on
C15_Witness ==
    /\ Succeeded("edit")
    /\ request.at > before[request.pk].created_at
    /\ objects[request.pk].created_at = before[request.pk].created_at
    /\ objects[request.pk].updated_at > objects[request.pk].created_at

\* C16: the list operation answers with exactly the todos in storage at that
\* moment, each once and with its current values, resolved or not; a deleted
\* todo is not in it, and listing changes nothing.
C16_ListIsCurrentStorage ==
    request.op = "list" =>
        LET t == response.todos
        IN  /\ response.status = 200
            /\ objects = before
            /\ {t[i].id : i \in 1..Len(t)} = DOMAIN objects
            /\ \A i, j \in 1..Len(t) : t[i].id = t[j].id => i = j
            /\ \A i \in 1..Len(t) : t[i] = [id |-> t[i].id] @@ objects[t[i].id]
            /\ \A i \in 1..Len(t) : t[i].id \notin deleted

\* a list after two creates and a delete shows the one todo that is left
C16_Witness ==
    /\ request.op = "list"
    /\ Len(issued) = 2
    /\ Cardinality(deleted) = 1
    /\ Len(response.todos) = 1
    /\ response.todos[1].id \in DOMAIN objects

\* C17: an edit of a stored todo whose values fail validation (no title, a blank
\* or over-long title, an invalid due date) persists nothing: the target keeps
\* every field, updated_at included, and the answer is the form again (200)
\* with field errors.
C17_InvalidEditStoresNothing ==
    (/\ request.op = "edit"
     /\ request.pk \in DOMAIN before
     /\ FailsValidation(request.data) \/ BlankTitle(request.data))
        => /\ objects[request.pk] = before[request.pk]
           /\ objects = before
           /\ response.status = 200
           /\ response.errors # {}

\* an edit rejected for its due date, served later than the todo's last save
C17_Witness ==
    /\ request.op = "edit"
    /\ request.pk \in DOMAIN before
    /\ request.data.due_date = <<Feb30>>
    /\ response.status = 200
    /\ <<"due_date", "invalid">> \in response.errors
    /\ before[request.pk].due_date # NoDate
    /\ objects[request.pk].updated_at < request.at

\* the last request was a create whose title, once trimmed, is the title of a
\* todo already stored, and whose due date is not the invalid one
DuplicateCreate ==
    /\ request.op = "create"
    /\ request.data.due_date # <<Feb30>>
    /\ \E pk \in DOMAIN before : before[pk].title = Strip(Submitted(request.data.title))

\* C18: a create that repeats the title of a stored todo succeeds and adds a row
\* under an id no stored todo has; a toggle-resolve of one of several todos with
\* the same title flips that one's resolved flag and no other's.
C18_DuplicateTitlesIndependent ==
    /\ DuplicateCreate =>
          /\ response.status = 302
          /\ \A pk \in DOMAIN before : pk \in DOMAIN objects /\ objects[pk] = before[pk]
          /\ \E new \in DOMAIN objects \ DOMAIN before :
                /\ objects[new].title = Strip(Submitted(request.data.title))
                /\ DOMAIN objects = DOMAIN before \cup {new}
    /\ Succeeded("resolve") =>
          /\ objects[request.pk].resolved = ~before[request.pk].resolved
          /\ \A pk \in DOMAIN before \ {request.pk} :
                before[pk].title = before[request.pk].title
                   => objects[pk].resolved = before[pk].resolved

\* two todos equal in every attribute but the id, one of them toggled
C18_Witness ==
    /\ Succeeded("resolve")
    /\ \E pk \in DOMAIN before \ {request.pk} :
          /\ before[pk] = before[request.pk]
          /\ objects[pk].resolved # objects[request.pk].resolved

\* the calendar date each due_date submission of the model stands for
DateOf(vals) ==
    CASE vals = <<>> -> NoDate
      [] vals = <<Jan05>> -> <<2025, 1, 5>>
      [] vals = <<Jan05US>> -> <<2025, 1, 5>>
      [] vals = <<Dec25>> -> <<2025, 12, 25>>

\* the last request was a create, and it succeeded
Created == request.op = "create" /\ response.status = 302

\* what a successful create does apart from the description it stores: one new
\* row under a new id, trimmed title, due date, unresolved, both timestamps the
\* time of the request, every other row as it was, and a redirect
CreateAddsOneRow ==
    LET new == issued[Len(issued)]
    IN  /\ new \notin DOMAIN before
        /\ DOMAIN objects = DOMAIN before \cup {new}
        /\ \A pk \in DOMAIN before : objects[pk] = before[pk]
        /\ objects[new].title = Strip(Submitted(request.data.title))
        /\ objects[new].due_date = DateOf(request.data.due_date)
        /\ objects[new].resolved = FALSE
        /\ objects[new].created_at = request.at
        /\ objects[new].updated_at = request.at
        /\ response = Redirect

\* C19 as claimed: a successful create adds exactly one record that holds the
\* title (trimmed), the description as submitted and the due date, under a new
\* id, unresolved, with both timestamps the current time; the other todos are
\* unchanged and the answer is a redirect.
C19_CreateStoresSubmitted ==
    Created =>
        /\ CreateAddsOneRow
        /\ objects[issued[Len(issued)]].description = Submitted(request.data.description)

\* C19, amended: as claimed, but the description is stored trimmed of leading
\* and trailing whitespace, and as the empty text when none was submitted.
C19_CreateStoresTrimmed ==
    Created =>
        /\ CreateAddsOneRow
        /\ objects[issued[Len(issued)]].description
              = Strip(Submitted(request.data.description))
        /\ request.data.description = <<>>
              => objects[issued[Len(issued)]].description = <<>>

\* a create with a padded description and a due date, beside a stored todo
C19_Witness ==
    /\ Created
    /\ before # <<>>
    /\ request.data.description = <<<<" ", "x", "\n", "x", " ">>>>
    /\ objects[issued[Len(issued)]].description = <<"x", "\n", "x">>
    /\ objects[issued[Len(issued)]].due_date = <<2025, 1, 5>>

\* the last request was a create, or an edit of a stored todo
FormPosted ==
    /\ request.op \in {"create", "edit"}
    /\ request.op = "edit" => request.pk \in DOMAIN before

\* the request was answered with the form and an invalid-date error, and
\* nothing was persisted
DueDateRejected ==
    /\ response.status = 200
    /\ <<"due_date", "invalid">> \in response.errors
    /\ objects = before

\* the due date passed validation; if the whole form did, the row written
\* holds the date d
DueDateAccepted(d) ==
    /\ \A e \in response.errors : e[1] # "due_date"
    /\ response.status = 302
          => Written \in DOMAIN objects /\ objects[Written].due_date = d

\* C20 as claimed: in create and edit a due date is accepted exactly when it is
\* absent or a valid calendar date written YYYY-MM-DD; every other string is
\* rejected as an invalid date and nothing is persisted.
C20_DueDateIsoOnly ==
    FormPosted =>
        IF request.data.due_date \in {<<>>, <<Jan05>>, <<Dec25>>}
        THEN DueDateAccepted(DateOf(request.data.due_date))
        ELSE DueDateRejected

\* C20, amended: a due date is accepted when it is absent, or a valid calendar
\* date written YYYY-MM-DD or month/day/year (01/05/2025 is stored as 5 January
\* 2025); a string in date form that names no calendar date (2025-02-30) is
\* rejected as an invalid date and nothing is persisted.
C20_DueDateInputFormats ==
    FormPosted =>
        IF request.data.due_date \in {<<>>, <<Jan05>>, <<Dec25>>, <<Jan05US>>}
        THEN DueDateAccepted(DateOf(request.data.due_date))
        ELSE request.data.due_date = <<Feb30>> /\ DueDateRejected

\* an edit that gives a todo a due date written month/day/year
C20_Witness ==
    /\ Succeeded("edit")
    /\ request.data.due_date = <<Jan05US>>
    /\ before[request.pk].due_date # <<2025, 1, 5>>
    /\ objects[request.pk].due_date = <<2025, 1, 5>>

\* the last request was an edit for an id that has no row
EditOfUnknown == request.op = "edit" /\ request.pk \notin DOMAIN before

\* C21: an edit for an unknown id answers 404 whether its values are valid or
\* not, never 200 with field errors, and stores no row under that id.
C21_EditLooksUpFirst ==
    EditOfUnknown =>
        /\ response = Http404
        /\ response.errors = {}
        /\ request.pk \notin DOMAIN objects
        /\ objects = before

\* an edit with a blank title for a deleted id: 404, not the form again
C21_Witness ==
    /\ EditOfUnknown
    /\ request.pk \in deleted
    /\ BlankTitle(request.data)
    /\ response.status = 404

\* a submission that passes validation
Valid(data) == ~FailsValidation(data) /\ ~BlankTitle(data)

\* C22: resolved guards nothing: a toggle-resolve of a stored todo succeeds and
\* flips the flag from either value, and a valid edit of a stored todo succeeds
\* and writes title, description and due date whatever the flag is, leaving it
\* as it was.
C22_NoGuardOnResolved ==
    /\ (request.op = "resolve" /\ request.pk \in DOMAIN before)
          => /\ response = Redirect
             /\ objects[request.pk].resolved = ~before[request.pk].resolved
    /\ (request.op = "edit" /\ request.pk \in DOMAIN before /\ Valid(request.data))
          => /\ response = Redirect
             /\ objects[request.pk].resolved = before[request.pk].resolved
             /\ objects[request.pk].title = Strip(Submitted(request.data.title))
             /\ objects[request.pk].description = Strip(Submitted(request.data.description))
             /\ objects[request.pk].due_date = DateOf(request.data.due_date)

\* an edit that changed the due date of a resolved todo
C22_Witness ==
    /\ Succeeded("edit")
    /\ before[request.pk].resolved
    /\ objects[request.pk].resolved
    /\ objects[request.pk].due_date # before[request.pk].due_date
    /\ objects[request.pk].due_date # NoDate

\* the last request was a create or an edit that saved a row
Saved ==
    /\ request.op \in {"create", "edit"}
    /\ response.status = 302

\* C23 as claimed: the description a successful create or edit stores is the
\* submitted text exactly, surrounding whitespace included, and null when no
\* description was submitted.
C23_DescriptionVerbatim ==
    Saved =>
        objects[Written].description =
            (IF request.data.description = <<>> THEN Null
             ELSE request.data.description[1])

\* C23, amended: the description stored is the submitted text without its
\* leading and trailing whitespace, the whitespace and newlines inside it kept;
\* when none is submitted the empty text is stored, never null.
C23_DescriptionTrimmed ==
    Saved =>
        /\ objects[Written].description # Null
        /\ request.data.description = <<>> => objects[Written].description = <<>>
        /\ request.data.description = <<<<" ", "x", "\n", "x", " ">>>>
              => objects[Written].description = <<"x", "\n", "x">>

\* an edit that gave a todo without description a padded one, stored trimmed
C23_Witness ==
    /\ Succeeded("edit")
    /\ before[request.pk].description = <<>>
    /\ request.data.description = <<<<" ", "x", "\n", "x", " ">>>>
    /\ objects[request.pk].description = <<"x", "\n", "x">>

\* the stored ids a bulk-delete selection names
Selected == {pk \in DOMAIN before : PkText(pk) \in request.selected}

\* the table without the selected rows, every other row as it was
SelectedRemoved ==
    /\ DOMAIN objects = DOMAIN before \ Selected
    /\ \A pk \in DOMAIN objects : objects[pk] = before[pk]

\* C27 as claimed: bulk delete removes exactly the stored todos whose ids are
\* selected and leaves the others unchanged, ignores selected ids without a
\* row, does nothing on an empty selection, and always answers with a redirect.
C27_BulkDeleteAlwaysRedirects ==
    request.op = "bulk-delete" => (SelectedRemoved /\ response = Redirect)

\* C27, amended: as claimed when every selected value is an integer; when one
\* is not, the request fails with a server error and nothing is deleted, the
\* selected ids that have rows included.
C27_BulkDeleteOfIntegers ==
    request.op = "bulk-delete" =>
        IF \A v \in request.selected : \E pk \in 1..9 : v = PkText(pk)
        THEN SelectedRemoved /\ response = Redirect
        ELSE objects = before /\ response.status = 500

\* a bulk delete naming a stored id, a deleted id and an id never issued
\* removes the one row
C27_Witness ==
    /\ request.op = "bulk-delete"
    /\ response = Redirect
    /\ Cardinality(request.selected) = 3
    /\ Cardinality(Selected) = 1
    /\ \E pk \in deleted : pk \notin DOMAIN before /\ PkText(pk) \in request.selected
    /\ PkText(nextId) \in request.selected
    /\ DOMAIN objects = DOMAIN before \ Selected

\* the GET requests of the model
Gets == {"list", "create-form", "edit-form", "delete-confirm", "resolve-get"}

\* C28: a GET changes no todo in any field: the list, the create form, the edit
\* form, the delete confirmation and a GET to the resolve path leave the table
\* as found; the confirmation keeps the row it shows and a GET to the resolve
\* path is refused without flipping resolved.
C28_GetChangesNothing ==
    request.op \in Gets =>
        /\ objects = before
        /\ (request.op \in {"edit-form", "delete-confirm"} /\ request.pk \in DOMAIN before)
              => /\ response.status = 200
                 /\ response.todos = <<[id |-> request.pk] @@ before[request.pk]>>
                 /\ request.pk \in DOMAIN objects
        /\ (request.op \in {"edit-form", "delete-confirm"} /\ request.pk \notin DOMAIN before)
              => response.status = 404
        /\ request.op = "resolve-get" => response.status = 405
        /\ request.op = "create-form" => response.status = 200

\* a GET to the resolve path of a stored, unresolved todo: refused, not flipped
C28_Witness ==
    /\ request.op = "resolve-get"
    /\ request.pk \in DOMAIN objects
    /\ ~objects[request.pk].resolved
    /\ response.status = 405

\* C29: the set of stored ids changes only in a successful create, which adds
\* exactly one id, and in a successful delete or bulk delete, which only remove
\* ids; list, edit and toggle-resolve, and every request that ends in 404 or in
\* validation errors, leave the set as it was.
C29_IdsChangeByCreateAndDelete ==
    /\ DOMAIN objects # DOMAIN before =>
          \/ /\ Created
             /\ DOMAIN before \subseteq DOMAIN objects
             /\ Cardinality(DOMAIN objects) = Cardinality(DOMAIN before) + 1
          \/ /\ request.op \in {"delete", "bulk-delete"}
             /\ response = Redirect
             /\ DOMAIN objects \subseteq DOMAIN before
    /\ Created => Cardinality(DOMAIN objects) = Cardinality(DOMAIN before) + 1
    /\ request.op \in {"list", "edit", "resolve"} => DOMAIN objects = DOMAIN before
    /\ response.status = 404 => DOMAIN objects = DOMAIN before
    /\ response.errors # {} => DOMAIN objects = DOMAIN before

\* a toggle-resolve of one of two todos that changed the row, the ids as before
C29_Witness ==
    /\ Succeeded("resolve")
    /\ objects # before
    /\ Cardinality(DOMAIN objects) = 2
    /\ DOMAIN objects = DOMAIN before

\* C30: a successful edit of an id changes that row alone: every other todo
\* keeps all its fields, updated_at too, and the edited todo keeps its id and
\* its created_at.
C30_EditTouchesOnlyTarget ==
    Succeeded("edit") =>
        /\ DOMAIN objects = DOMAIN before
        /\ \A pk \in DOMAIN before \ {request.pk} :
              /\ objects[pk] = before[pk]
              /\ objects[pk].updated_at = before[pk].updated_at
        /\ objects[request.pk].created_at = before[request.pk].created_at

\* an edit at a later time of one of two todos: the other's updated_at stays
C30_Witness ==
    /\ Succeeded("edit")
    /\ objects[request.pk] # before[request.pk]
    /\ \E pk \in DOMAIN objects \ {request.pk} :
          /\ objects[pk].updated_at < request.at
          /\ objects[pk].title # objects[request.pk].title

(***************************************************************************)
(* Properties of requests served side by side (SpecConcurrent).            *)
(***************************************************************************)
Done(w) == inflight[w].stage = "done"

\* each of the two requests looked the row up before the other one wrote
Overlap == \A v, w \in Workers : inflight[v].read < inflight[w].wrote

\* both requests were toggle-resolves of the same stored todo, and both are over
TwoToggles ==
    /\ \A w \in Workers : Done(w) /\ inflight[w].op = "resolve" /\ inflight[w].status = 302
    /\ inflight[1].pk = inflight[2].pk

\* C24 as claimed: whatever the interleaving of two toggle-resolves of one todo,
\* both flips take effect and resolved ends at the value it had before them.
C24_BothFlipsTakeEffect ==
    TwoToggles => objects[inflight[1].pk].resolved = before[inflight[1].pk].resolved

\* C24, amended: both flips take effect when one request writes before the other
\* looks the todo up; when both look it up before either writes, both save the
\* negation of the same value and resolved ends negated: one flip is lost.
C24_FlipLostWhenOverlapping ==
    TwoToggles =>
        /\ inflight[1].pk \in DOMAIN objects
        /\ objects[inflight[1].pk].resolved =
              (IF Overlap THEN ~before[inflight[1].pk].resolved
               ELSE before[inflight[1].pk].resolved)

\* two toggles that both read the todo unresolved: it ends resolved
C24_Witness ==
    /\ TwoToggles
    /\ Overlap
    /\ ~inflight[1].object.resolved
    /\ ~inflight[2].object.resolved
    /\ objects[inflight[1].pk].resolved

\* request d deleted the todo between the lookup and the write of request w, a
\* toggle-resolve or an edit of the same todo
DeletedInBetween(d, w) ==
    /\ Done(d) /\ inflight[d].op = "delete" /\ inflight[d].status = 302
    /\ Done(w) /\ inflight[w].op \in {"resolve", "edit"}
    /\ inflight[w].pk = inflight[d].pk
    /\ inflight[w].read < inflight[d].wrote
    /\ inflight[d].wrote < inflight[w].wrote

\* C25: a delete that commits between the lookup and the save of a toggle-resolve
\* or an edit of the same todo is not undone: when both requests are over, no
\* todo with that id is stored.
C25_DeleteNotUndone ==
    \A d, w \in Workers : DeletedInBetween(d, w) => inflight[d].pk \notin DOMAIN objects

\* one request toggled the todo and the other edited it, both with success
ToggleAndEdit(t, e) ==
    /\ Done(t) /\ inflight[t].op = "resolve" /\ inflight[t].status = 302
    /\ Done(e) /\ inflight[e].op = "edit" /\ inflight[e].status = 302
    /\ inflight[t].pk = inflight[e].pk

\* the row holds the title, description and due date that body submits
HoldsEdit(row, data) ==
    /\ row.title = Strip(Submitted(data.title))
    /\ row.description = Strip(Submitted(data.description))
    /\ row.due_date = DateOf(data.due_date)

\* the row holds the title, description and due date of that earlier row
HoldsFieldsOf(row, earlier) ==
    /\ row.title = earlier.title
    /\ row.description = earlier.description
    /\ row.due_date = earlier.due_date

\* C26 as claimed: whatever the interleaving of a toggle-resolve and a successful
\* edit of one todo, it ends with the edit's title, description and due date and
\* with resolved negated.
C26_BothChangesKept ==
    \A t, e \in Workers :
        ToggleAndEdit(t, e) =>
            /\ HoldsEdit(objects[inflight[e].pk], inflight[e].data)
            /\ objects[inflight[e].pk].resolved = ~before[inflight[e].pk].resolved

\* C26, amended: both changes are kept when one request writes before the other
\* looks the todo up; when both look it up first, the later save writes the
\* whole row as that request read it: after the toggle the edit is undone, after
\* the edit the flip is undone.
C26_LaterSaveWins ==
    \A t, e \in Workers :
        ToggleAndEdit(t, e) =>
            LET pk   == inflight[e].pk
                row  == objects[pk]
                orig == before[pk]
            IN  IF ~Overlap
                THEN HoldsEdit(row, inflight[e].data) /\ row.resolved = ~orig.resolved
                ELSE IF inflight[e].wrote < inflight[t].wrote
                THEN HoldsFieldsOf(row, orig) /\ row.resolved = ~orig.resolved
                ELSE HoldsEdit(row, inflight[e].data) /\ row.resolved = orig.resolved

\* an edit saved, then overwritten by a toggle that had read the todo before it
C26_Witness ==
    \E t, e \in Workers :
        /\ ToggleAndEdit(t, e)
        /\ Overlap
        /\ inflight[e].wrote < inflight[t].wrote
        /\ ~HoldsEdit(objects[inflight[e].pk], inflight[e].data)
        /\ HoldsFieldsOf(objects[inflight[e].pk], before[inflight[e].pk])

====
